---------------------------- MODULE Spec2Model ----------------------------
(***************************************************************************)
(* Model of src/bios_boot.c: the BIOS boot sequence of an industrial       *)
(* computer (power check, thermal check, hardware initialization, boot     *)
(* complete) run over the global SystemState g_state.                      *)
(*                                                                         *)
(* One boot attempt (one call of bios_boot_sequence) is split into the     *)
(* stages its source numbers "Step 1" .. "Step 4"; `pc` is the position of *)
(* the single thread of control.  `out` is what the attempt in progress    *)
(* has written to stdout (the observability sink).                         *)
(***************************************************************************)
EXTENDS Integers, Sequences, FiniteSets

VARIABLES
    cpu_temp,        \* g_state.cpu_temp        (uint16_t)
    board_temp,      \* g_state.board_temp      (uint16_t)
    boot_count,      \* g_state.boot_count      (uint8_t)
    high_temp_mode,  \* g_state.high_temp_mode  (bool)
    pc,              \* stage of the boot attempt in progress, "Idle" between calls
    power_ok,        \* <<>> or <<v>>: what check_power_stability returned in this attempt
    thermal_status,  \* <<>> or <<v>>: the local thermal_status of bios_boot_sequence
    ret,             \* <<>> or <<v>>: the value bios_boot_sequence returned
    out,             \* the lines this attempt has printed so far
    entry            \* history: <<>> or <<g>>, g_state as it was when this attempt was called

vars == <<cpu_temp, board_temp, boot_count, high_temp_mode, pc,
          power_ok, thermal_status, ret, out, entry>>

(* g_state as one record.                                                  *)
g_state ==
    [cpu_temp |-> cpu_temp, board_temp |-> board_temp,
     boot_count |-> boot_count, high_temp_mode |-> high_temp_mode]

---------------------------------------------------------------------------
(* Configuration constants, src/bios_boot.c lines 15-24.                   *)

TEMP_NORMAL_MAX == 85

TEMP_HIGH_MAX == 300

TEMP_CRITICAL == 140

BOOT_OK == 0

BOOT_TEMP_WARNING == 1

BOOT_TEMP_CRITICAL == 2

BOOT_FAILED == 3

(* boot_count is a uint8_t: arithmetic on it is modulo 2^8.                *)
UINT8_RANGE == 256

(* cpu_temp and board_temp are uint16_t.                                   *)
UINT16_RANGE == 65536

---------------------------------------------------------------------------
(* Inputs.  The temperatures a caller stores into g_state before a call:   *)
(* the values main stores (75/70 and 95/90) and the values on and around   *)
(* the three configured thresholds.                                        *)

(* How far around each threshold the sampled temperatures reach.           *)
TempSpread == 1

Near(t) == (t - TempSpread) .. (t + TempSpread)

ThresholdTemps == Near(TEMP_NORMAL_MAX) \cup Near(TEMP_CRITICAL) \cup Near(TEMP_HIGH_MAX)

CpuTemps == {75, 95} \cup ThresholdTemps

BoardTemps == {70, 90} \cup ThresholdTemps

(* The value of the local power_ok of check_power_stability.  The source   *)
(* hard-wires it to true (line 99).                                        *)
PowerReadings == {TRUE}

(* The voltage/current sensor value that line 99 stands for ("in reality   *)
(* the voltage/current sensor values are checked", line 98): either value. *)
SensorPowerReadings == BOOLEAN

Stages == {"Idle", "PowerCheck", "ThermalCheck", "Initializing", "Complete", "Aborted"}

---------------------------------------------------------------------------
(* Output lines.                                                           *)

log_boot(msg) == [level |-> "BOOT LOG", msg |-> msg, args |-> <<>>]

log_error(msg) == [level |-> "ERROR", msg |-> msg, args |-> <<>>]

printf(msg, args) == [level |-> "STDOUT", msg |-> msg, args |-> args]

(* The sensor reads return the simulated values held in g_state.           *)
read_cpu_temperature == cpu_temp

read_board_temperature == board_temp

(* The same reads, of a given g_state g.                                   *)
read_cpu_temperature_of(g) == g.cpu_temp

read_board_temperature_of(g) == g.board_temp

---------------------------------------------------------------------------
(* check_thermal_conditions, lines 69-88, as functions of the two readings *)
(* it stores and prints.                                                   *)

(* Mutant: the board reading is compared as well.                          *)
TooHotEither(cpu, board) == cpu > TEMP_NORMAL_MAX \/ board > TEMP_NORMAL_MAX

(* Mutant: the comparison made inclusive.                                  *)
TooHotInclusive(cpu, board) == cpu >= TEMP_NORMAL_MAX

(* Mutant: the comparison inverted.                                        *)
TooHotInverted(cpu, board) == cpu <= TEMP_NORMAL_MAX

(* line 78: only the CPU reading is compared, strictly, with the normal    *)
(* maximum; the board reading is read and printed, never compared.         *)
TooHot(cpu, board) == cpu > TEMP_NORMAL_MAX

ThermalStatus(cpu, board) ==
    IF TooHot(cpu, board) THEN BOOT_TEMP_CRITICAL ELSE BOOT_OK

ThermalLines(cpu, board) ==
    <<printf("CPU Temp: %d C, Board Temp: %d C", <<cpu, board>>)>>
    \o (IF TooHot(cpu, board)
        THEN <<log_error("Temperature too high for boot!")>>
        ELSE <<>>)

(* Mutant: the check switches to the high-temperature mode on a hot        *)
(* reading and lets a hot reading pass once in that mode.                  *)
check_thermal_switches_mode(g) ==
    [g |-> [g EXCEPT !.high_temp_mode = g.high_temp_mode \/ TooHot(g.cpu_temp, g.board_temp)],
     status |-> IF TooHot(g.cpu_temp, g.board_temp) /\ ~g.high_temp_mode
                THEN BOOT_TEMP_CRITICAL ELSE BOOT_OK]

(* check_thermal_conditions, lines 69-88, on a g_state g: the g_state it   *)
(* leaves (lines 70-71 store the two reads back) and the status it         *)
(* returns.                                                                *)
check_thermal_conditions(g) ==
    LET after == [g EXCEPT !.cpu_temp = read_cpu_temperature_of(g),
                           !.board_temp = read_board_temperature_of(g)]
    IN  [g |-> after, status |-> ThermalStatus(after.cpu_temp, after.board_temp)]

(* check_power_stability, lines 94-108, as a function of its local         *)
(* power_ok: the lines it prints (its return value is power_ok itself).    *)
PowerLines(p) ==
    <<log_boot("Checking power supply stability...")>>
    \o (IF p
        THEN <<log_boot("Power supply: STABLE")>>
        ELSE <<log_error("Power supply unstable!")>>)

(* lines 131-134: what bios_boot_sequence prints when the thermal status  *)
(* is BOOT_TEMP_CRITICAL.                                                  *)
ThermalAbortLines == <<log_error("Boot aborted due to thermal conditions")>>

ErrorLines(lines) == SelectSeq(lines, LAMBDA l : l.level = "ERROR")

(* Whether a call with power reading p and the readings cpu, board returns *)
(* before Step 3 (lines 124-126 and 131-134).                              *)
AttemptAborts(p, cpu, board) ==
    (~p) \/ ThermalStatus(cpu, board) = BOOT_TEMP_CRITICAL

(* The [ERROR] lines one call prints, lines 113-147, as a function of the  *)
(* power reading and the two temperature readings.                         *)
AttemptErrors(p, cpu, board) ==
    ErrorLines(PowerLines(p)
               \o (IF p
                   THEN ThermalLines(cpu, board)
                        \o (IF ThermalStatus(cpu, board) = BOOT_TEMP_CRITICAL
                            THEN ThermalAbortLines
                            ELSE <<>>)
                   ELSE <<>>))

---------------------------------------------------------------------------
Init ==
    /\ cpu_temp = 0
    /\ board_temp = 0
    /\ boot_count = 0
    /\ high_temp_mode = FALSE
    /\ pc = "Idle"
    /\ power_ok = <<>>
    /\ thermal_status = <<>>
    /\ ret = <<>>
    /\ out = <<>>
    /\ entry = <<>>

(* The caller stores the simulated sensor values (main, lines 153-154 and  *)
(* 159-160).                                                               *)
SetTelemetry(c, b) ==
    /\ pc = "Idle"
    /\ cpu_temp' = c % UINT16_RANGE
    /\ board_temp' = b % UINT16_RANGE
    /\ UNCHANGED <<boot_count, high_temp_mode, pc, power_ok, thermal_status, ret, out, entry>>

(* The caller clears the attempt counter between scenarios (main, line     *)
(* 161).                                                                   *)
ResetBootCount ==
    /\ pc = "Idle"
    /\ boot_count' = 0
    /\ UNCHANGED <<cpu_temp, board_temp, high_temp_mode, pc, power_ok,
                   thermal_status, ret, out, entry>>

(* bios_boot_sequence is called: lines 113-123.                            *)
EnterBoot ==
    /\ pc = "Idle"
    /\ boot_count' = (boot_count + 1) % UINT8_RANGE
    /\ out' = <<printf("========================================", <<>>),
                printf("BIOS Boot Sequence v1.0.0", <<>>),
                printf("Hardware: Mainboard v2.1", <<>>),
                printf("Boot Attempt: %d", <<boot_count'>>),
                printf("========================================", <<>>),
                log_boot("Step 1: Power check")>>
    /\ pc' = "PowerCheck"
    /\ power_ok' = <<>>
    /\ thermal_status' = <<>>
    /\ ret' = <<>>
    /\ entry' = <<g_state>>
    /\ UNCHANGED <<cpu_temp, board_temp, high_temp_mode>>

(* Mutant: the failed power check does not return; control falls through   *)
(* to the thermal check.                                                   *)
PowerCheckFallsThrough(p) ==
    /\ pc = "PowerCheck"
    /\ power_ok' = <<p>>
    /\ out' = out \o PowerLines(p) \o <<log_boot("Step 2: Thermal check")>>
    /\ pc' = "ThermalCheck"
    /\ UNCHANGED <<cpu_temp, board_temp, boot_count, high_temp_mode,
                   thermal_status, ret, entry>>

(* Mutant: an unstable reading clears the attempt counter.                 *)
PowerCheckClearsCount(p) ==
    /\ pc = "PowerCheck"
    /\ power_ok' = <<p>>
    /\ IF p
       THEN /\ out' = out \o PowerLines(p) \o <<log_boot("Step 2: Thermal check")>>
            /\ pc' = "ThermalCheck"
            /\ ret' = ret
            /\ boot_count' = boot_count
       ELSE /\ out' = out \o PowerLines(p)
            /\ pc' = "Aborted"
            /\ ret' = <<BOOT_FAILED>>
            /\ boot_count' = 0
    /\ UNCHANGED <<cpu_temp, board_temp, high_temp_mode, thermal_status, entry>>

(* Mutant: an unstable reading is not final; the gate is evaluated a       *)
(* second time before the attempt gives up.                                *)
PowerCheckRetries(p) ==
    /\ pc = "PowerCheck"
    /\ power_ok' = <<p>>
    /\ IF p
       THEN /\ out' = out \o PowerLines(p) \o <<log_boot("Step 2: Thermal check")>>
            /\ pc' = "ThermalCheck"
            /\ ret' = ret
       ELSE /\ out' = out \o PowerLines(p) \o PowerLines(p)
            /\ pc' = "Aborted"
            /\ ret' = <<BOOT_FAILED>>
    /\ UNCHANGED <<cpu_temp, board_temp, boot_count, high_temp_mode,
                   thermal_status, entry>>

(* Step 1, lines 124-129: check_power_stability (lines 94-108) with its    *)
(* local power_ok = p; a false result returns BOOT_FAILED at once.         *)
PowerCheck(p) ==
    /\ pc = "PowerCheck"
    /\ power_ok' = <<p>>
    /\ IF p
       THEN /\ out' = out \o PowerLines(p) \o <<log_boot("Step 2: Thermal check")>>
            /\ pc' = "ThermalCheck"
            /\ ret' = ret
       ELSE /\ out' = out \o PowerLines(p)
            /\ pc' = "Aborted"
            /\ ret' = <<BOOT_FAILED>>
    /\ UNCHANGED <<cpu_temp, board_temp, boot_count, high_temp_mode,
                   thermal_status, entry>>

(* Mutant: a thermal abort switches the high-temperature mode on for the   *)
(* attempts that follow.                                                   *)
ThermalCheckHardensOnAbort ==
    /\ pc = "ThermalCheck"
    /\ cpu_temp' = check_thermal_conditions(g_state).g.cpu_temp
    /\ board_temp' = check_thermal_conditions(g_state).g.board_temp
    /\ boot_count' = check_thermal_conditions(g_state).g.boot_count
    /\ thermal_status' = <<check_thermal_conditions(g_state).status>>
    /\ IF thermal_status'[1] = BOOT_TEMP_CRITICAL
       THEN /\ out' = out \o ThermalLines(cpu_temp', board_temp')
                          \o ThermalAbortLines
            /\ ret' = <<BOOT_TEMP_CRITICAL>>
            /\ pc' = "Aborted"
            /\ high_temp_mode' = TRUE
       ELSE /\ out' = out \o ThermalLines(cpu_temp', board_temp')
                          \o <<log_boot("Step 3: Hardware initialization"),
                               log_boot("Initializing CPU..."),
                               log_boot("Initializing Memory..."),
                               log_boot("Initializing I/O...")>>
            /\ ret' = ret
            /\ pc' = "Initializing"
            /\ high_temp_mode' = check_thermal_conditions(g_state).g.high_temp_mode
    /\ UNCHANGED <<power_ok, entry>>

(* Mutant: on a critical status the step does not return; it stays in the  *)
(* thermal check, waiting for the readings to drop.                        *)
ThermalCheckWaits ==
    /\ pc = "ThermalCheck"
    /\ cpu_temp' = check_thermal_conditions(g_state).g.cpu_temp
    /\ board_temp' = check_thermal_conditions(g_state).g.board_temp
    /\ boot_count' = check_thermal_conditions(g_state).g.boot_count
    /\ high_temp_mode' = check_thermal_conditions(g_state).g.high_temp_mode
    /\ thermal_status' = <<check_thermal_conditions(g_state).status>>
    /\ IF thermal_status'[1] = BOOT_TEMP_CRITICAL
       THEN /\ out' = out
            /\ ret' = ret
            /\ pc' = "ThermalCheck"
       ELSE /\ out' = out \o ThermalLines(cpu_temp', board_temp')
                          \o <<log_boot("Step 3: Hardware initialization"),
                               log_boot("Initializing CPU..."),
                               log_boot("Initializing Memory..."),
                               log_boot("Initializing I/O...")>>
            /\ ret' = ret
            /\ pc' = "Initializing"
    /\ UNCHANGED <<power_ok, entry>>

(* Mutant: the thermal status is not tested; the attempt always goes on    *)
(* to hardware initialization.                                             *)
ThermalCheckNoAbort ==
    /\ pc = "ThermalCheck"
    /\ cpu_temp' = check_thermal_conditions(g_state).g.cpu_temp
    /\ board_temp' = check_thermal_conditions(g_state).g.board_temp
    /\ boot_count' = check_thermal_conditions(g_state).g.boot_count
    /\ high_temp_mode' = check_thermal_conditions(g_state).g.high_temp_mode
    /\ thermal_status' = <<check_thermal_conditions(g_state).status>>
    /\ out' = out \o ThermalLines(cpu_temp', board_temp')
                  \o <<log_boot("Step 3: Hardware initialization"),
                       log_boot("Initializing CPU..."),
                       log_boot("Initializing Memory..."),
                       log_boot("Initializing I/O...")>>
    /\ ret' = ret
    /\ pc' = "Initializing"
    /\ UNCHANGED <<power_ok, entry>>

(* Step 2, lines 130-140: check_thermal_conditions (lines 69-88) stores    *)
(* the two readings into g_state, prints them and returns the status; a    *)
(* BOOT_TEMP_CRITICAL status aborts the attempt.                           *)
ThermalCheck ==
    /\ pc = "ThermalCheck"
    /\ cpu_temp' = check_thermal_conditions(g_state).g.cpu_temp
    /\ board_temp' = check_thermal_conditions(g_state).g.board_temp
    /\ boot_count' = check_thermal_conditions(g_state).g.boot_count
    /\ high_temp_mode' = check_thermal_conditions(g_state).g.high_temp_mode
    /\ thermal_status' = <<check_thermal_conditions(g_state).status>>
    /\ IF thermal_status'[1] = BOOT_TEMP_CRITICAL
       THEN /\ out' = out \o ThermalLines(cpu_temp', board_temp')
                          \o ThermalAbortLines
            /\ ret' = <<BOOT_TEMP_CRITICAL>>
            /\ pc' = "Aborted"
       ELSE /\ out' = out \o ThermalLines(cpu_temp', board_temp')
                          \o <<log_boot("Step 3: Hardware initialization"),
                               log_boot("Initializing CPU..."),
                               log_boot("Initializing Memory..."),
                               log_boot("Initializing I/O...")>>
            /\ ret' = ret
            /\ pc' = "Initializing"
    /\ UNCHANGED <<power_ok, entry>>

(* Step 4, lines 142-146: boot complete, BOOT_OK is returned.              *)
CompleteBoot ==
    /\ pc = "Initializing"
    /\ out' = out \o <<log_boot("Step 4: Boot complete"),
                       printf("[SUCCESS] System boot completed!", <<>>)>>
    /\ ret' = <<BOOT_OK>>
    /\ pc' = "Complete"
    /\ UNCHANGED <<cpu_temp, board_temp, boot_count, high_temp_mode,
                   power_ok, thermal_status, entry>>

(* Control is back in the caller, which discards the returned value (main, *)
(* lines 155 and 162); the locals of the call are gone, and `out` starts   *)
(* afresh for the next attempt.                                            *)
ReturnToCaller ==
    /\ pc \in {"Complete", "Aborted"}
    /\ pc' = "Idle"
    /\ power_ok' = <<>>
    /\ thermal_status' = <<>>
    /\ ret' = <<>>
    /\ out' = <<>>
    /\ entry' = <<>>
    /\ UNCHANGED <<cpu_temp, board_temp, boot_count, high_temp_mode>>

Next ==
    \/ \E c \in CpuTemps, b \in BoardTemps : SetTelemetry(c, b)
    \/ ResetBootCount
    \/ EnterBoot
    \/ \E p \in PowerReadings : PowerCheck(p)
    \/ ThermalCheck
    \/ CompleteBoot
    \/ ReturnToCaller

(* The program as written: the power check always finds the supply stable. *)
Spec == Init /\ [][Next]_vars

NextSensor ==
    \/ \E c \in CpuTemps, b \in BoardTemps : SetTelemetry(c, b)
    \/ ResetBootCount
    \/ EnterBoot
    \/ \E p \in SensorPowerReadings : PowerCheck(p)
    \/ ThermalCheck
    \/ CompleteBoot
    \/ ReturnToCaller

(* The program with the power sensor behind line 99 reporting either       *)
(* value.                                                                  *)
SpecSensor == Init /\ [][NextSensor]_vars

(* The same program with its scheduling stated: the core is one           *)
(* synchronous thread, so a call that has been entered runs each of its    *)
(* steps; nothing obliges the caller to call again.                        *)
SpecFair ==
    /\ Init
    /\ [][NextSensor]_vars
    /\ WF_vars(\E p \in SensorPowerReadings : PowerCheck(p))
    /\ WF_vars(ThermalCheck)
    /\ WF_vars(CompleteBoot)

TypeOK ==
    /\ cpu_temp \in 0 .. UINT16_RANGE - 1
    /\ board_temp \in 0 .. UINT16_RANGE - 1
    /\ boot_count \in 0 .. UINT8_RANGE - 1
    /\ high_temp_mode \in BOOLEAN
    /\ pc \in Stages
    /\ Len(power_ok) <= 1
    /\ Len(thermal_status) <= 1
    /\ Len(ret) <= 1

---------------------------------------------------------------------------
(* Vocabulary of the properties below.                                     *)

Max(a, b) == IF a >= b THEN a ELSE b

(* The thermal check of the attempt in progress has run.                   *)
ThermalChecked == thermal_status # <<>>

(* The attempt in progress has returned a status code.                     *)
Returned == ret # <<>>

(* Readings at or above normal, below the hardened maximum, neither one    *)
(* critical: the band in which the attempt is to proceed with a warning.   *)
InWarningBand(cpu, board) ==
    /\ TEMP_NORMAL_MAX <= Max(cpu, board)
    /\ Max(cpu, board) < TEMP_HIGH_MAX
    /\ cpu < TEMP_CRITICAL
    /\ board < TEMP_CRITICAL

(* The disposition an attempt is to have, by power reading and readings.   *)
Disposition(p, cpu, board) ==
    IF ~p THEN "AbortPower"
    ELSE IF Max(cpu, board) >= TEMP_CRITICAL THEN "AbortCritical"
    ELSE IF cpu < TEMP_NORMAL_MAX /\ board < TEMP_NORMAL_MAX THEN "Proceed"
    ELSE IF InWarningBand(cpu, board) THEN "ProceedWithWarning"
    ELSE "AbortCritical"

StatusOf(d) ==
    CASE d = "Proceed" -> BOOT_OK
      [] d = "ProceedWithWarning" -> BOOT_TEMP_WARNING
      [] d = "AbortCritical" -> BOOT_TEMP_CRITICAL
      [] d = "AbortPower" -> BOOT_FAILED

(* The three abort causes an operator is to tell apart.                    *)
AbortCause(p, cpu, board) ==
    IF ~p THEN "PowerUnstable"
    ELSE IF Max(cpu, board) >= TEMP_CRITICAL THEN "ThermalCritical"
    ELSE "ThermalUnsafeForMode"

(* The lines that only the thermal step prints.                            *)
IsThermalLine(l) ==
    \/ l.msg = "Step 2: Thermal check"
    \/ l.msg = "CPU Temp: %d C, Board Temp: %d C"
    \/ l.msg = "Temperature too high for boot!"
    \/ l.msg = "Boot aborted due to thermal conditions"

---------------------------------------------------------------------------
(* C1: whenever the thermal check has run on readings of which one is at   *)
(* or above TEMP_CRITICAL (CPU or board), its status is BOOT_TEMP_CRITICAL *)
(* and the attempt is aborted, never in or past hardware initialization.   *)
C1_CriticalReadingAborts ==
    (ThermalChecked /\ Max(cpu_temp, board_temp) >= TEMP_CRITICAL)
        => (thermal_status = <<BOOT_TEMP_CRITICAL>> /\ pc = "Aborted")

(* C2: whenever the thermal check has run on readings in the warning band  *)
(* (normal <= max < hardened, neither critical), its status is             *)
(* BOOT_TEMP_WARNING, the attempt proceeds and the mode is hardened.       *)
C2_WarningBandProceedsHardened ==
    (ThermalChecked /\ InWarningBand(cpu_temp, board_temp))
        => /\ thermal_status = <<BOOT_TEMP_WARNING>>
           /\ pc \in {"Initializing", "Complete"}
           /\ high_temp_mode

C4_PowerFaultSkipsThermal ==
    (power_ok = <<FALSE>>)
        => /\ pc = "Aborted"
           /\ ret = <<BOOT_FAILED>>
           /\ thermal_status = <<>>
           /\ \A i \in 1 .. Len(out) : ~IsThermalLine(out[i])

(* C4 witness: a power fault has aborted an attempt at a critical CPU      *)
(* temperature.                                                            *)
C4_Witness ==
    /\ power_ok = <<FALSE>>
    /\ pc = "Aborted"
    /\ cpu_temp >= TEMP_CRITICAL
    /\ ret = <<BOOT_FAILED>>

(* C5: every call of bios_boot_sequence leaves the counter exactly one     *)
(* above what it was, so it never decreases over the calls of a session.   *)
C5_CountGrowsByOnePerCall ==
    [][(pc = "Idle" /\ pc' = "PowerCheck") => boot_count' = boot_count + 1]_vars

C7_ProfileOrdered ==
    (pc \in Stages)
        => (TEMP_NORMAL_MAX < TEMP_HIGH_MAX /\ TEMP_HIGH_MAX < TEMP_CRITICAL)

(* C8: when an attempt on warning-band readings has returned, the mode is  *)
(* hardened, and it is still hardened after the next step (the return to   *)
(* the caller, from where the next attempt starts).                        *)
C8_HardenedModePersists ==
    [][(Returned /\ power_ok = <<TRUE>> /\ InWarningBand(cpu_temp, board_temp))
          => (high_temp_mode /\ high_temp_mode')]_vars

(* C9: the code an attempt returns is the code of its disposition:         *)
(* Proceed -> BOOT_OK, ProceedWithWarning -> BOOT_TEMP_WARNING,            *)
(* AbortCritical -> BOOT_TEMP_CRITICAL, AbortPower -> BOOT_FAILED.         *)
C9_StatusMapsDisposition ==
    Returned => ret = <<StatusOf(Disposition(power_ok[1], cpu_temp, board_temp))>>

(* C10: an aborted attempt has printed an [ERROR] line, and its [ERROR]    *)
(* lines are not those of any aborting attempt with another abort cause.   *)
C10_AbortReasonsDistinct ==
    (pc = "Aborted")
        => /\ ErrorLines(out) # <<>>
           /\ \A p \in BOOLEAN, c \in CpuTemps, b \in BoardTemps :
                 (/\ AttemptAborts(p, c, b)
                  /\ AbortCause(p, c, b) # AbortCause(power_ok[1], cpu_temp, board_temp))
                     => AttemptErrors(p, c, b) # ErrorLines(out)

---------------------------------------------------------------------------
(* The "Step n" lines among the printed lines, in the order printed.       *)
StepLines(lines) ==
    SelectSeq(lines, LAMBDA l : l.msg \in {"Step 1: Power check",
                                            "Step 2: Thermal check",
                                            "Step 3: Hardware initialization",
                                            "Step 4: Boot complete"})

AllSteps ==
    <<log_boot("Step 1: Power check"), log_boot("Step 2: Thermal check"),
      log_boot("Step 3: Hardware initialization"), log_boot("Step 4: Boot complete")>>

(* How many of the printed lines carry the message m.                      *)
CountMsg(lines, m) == Len(SelectSeq(lines, LAMBDA l : l.msg = m))

(* C11: an attempt is in hardware initialization or complete only with a   *)
(* true power result and a thermal status of BOOT_OK or BOOT_TEMP_WARNING  *)
(* in that attempt; any other thermal status leaves it aborted; a complete *)
(* attempt returns BOOT_OK; and the steps announced so far are always the  *)
(* first steps of power check, thermal check, initialization, completion.  *)
C11_InitOnlyAfterBothGates ==
    /\ (pc \in {"Initializing", "Complete"})
          => /\ power_ok = <<TRUE>>
             /\ thermal_status \in {<<BOOT_OK>>, <<BOOT_TEMP_WARNING>>}
    /\ (ThermalChecked /\ thermal_status \notin {<<BOOT_OK>>, <<BOOT_TEMP_WARNING>>})
          => pc = "Aborted"
    /\ (pc = "Complete") => ret = <<BOOT_OK>>
    /\ StepLines(out) =
          SubSeq(AllSteps, 1,
                 CASE pc = "Idle" -> 0
                   [] pc = "PowerCheck" -> 1
                   [] pc = "ThermalCheck" -> 2
                   [] pc = "Initializing" -> 3
                   [] pc = "Complete" -> 4
                   [] pc = "Aborted" -> IF power_ok = <<TRUE>> THEN 2 ELSE 1)

(* C11 witness: an attempt has completed after a true power result and a   *)
(* BOOT_OK thermal status, all four steps announced.                       *)
C11_Witness ==
    /\ pc = "Complete"
    /\ power_ok = <<TRUE>>
    /\ thermal_status = <<BOOT_OK>>
    /\ StepLines(out) = AllSteps

(* The ceiling in force: the hardened maximum in high-temperature mode,    *)
(* the normal maximum otherwise.                                           *)
EffectiveCeiling(mode) == IF mode THEN TEMP_HIGH_MAX ELSE TEMP_NORMAL_MAX

(* C12: whenever the thermal check has run on readings both below          *)
(* TEMP_CRITICAL of which one is above the ceiling of the current mode,    *)
(* its status is BOOT_TEMP_CRITICAL and the attempt is aborted.            *)
C12_AboveCeilingAborts ==
    (/\ ThermalChecked
     /\ cpu_temp < TEMP_CRITICAL
     /\ board_temp < TEMP_CRITICAL
     /\ Max(cpu_temp, board_temp) > EffectiveCeiling(high_temp_mode))
        => (thermal_status = <<BOOT_TEMP_CRITICAL>> /\ pc = "Aborted")

(* C13: within one attempt the power gate has been evaluated exactly once  *)
(* as soon as the power step is over and not before, the thermal check     *)
(* once if its status exists and not at all otherwise, and an aborted      *)
(* attempt has printed nothing after the [ERROR] line of its abort.        *)
C13_NoRetryWithinAttempt ==
    /\ CountMsg(out, "Checking power supply stability...")
          = (IF pc \in {"Idle", "PowerCheck"} THEN 0 ELSE 1)
    /\ CountMsg(out, "CPU Temp: %d C, Board Temp: %d C")
          = (IF ThermalChecked THEN 1 ELSE 0)
    /\ (power_ok = <<FALSE>>) => (pc = "Aborted" /\ ~ThermalChecked)
    /\ (pc = "Aborted")
          => /\ Returned
             /\ out[Len(out)] \in {log_error("Power supply unstable!"),
                                   ThermalAbortLines[1]}

(* C13 witness: an unstable power reading has ended the attempt after one  *)
(* evaluation of the gate.                                                 *)
C13_Witness ==
    /\ pc = "Aborted"
    /\ power_ok = <<FALSE>>
    /\ CountMsg(out, "Checking power supply stability...") = 1
    /\ CountMsg(out, "Power supply unstable!") = 1

(* C14: the stage is always one of the six stages, and an attempt that is  *)
(* in its power check, thermal check or initialization eventually is       *)
(* Complete or Aborted.                                                    *)
C14_AttemptTerminates ==
    /\ [](pc \in Stages)
    /\ (pc \in {"PowerCheck", "ThermalCheck", "Initializing"})
          ~> (pc \in {"Complete", "Aborted"})

(* C14 witness: an attempt called with hardened-range readings left over   *)
(* from an earlier attempt (counter above one) has reached a terminal      *)
(* stage.                                                                  *)
C14_Witness ==
    /\ pc \in {"Complete", "Aborted"}
    /\ boot_count > 1
    /\ cpu_temp >= TEMP_HIGH_MAX
    /\ Returned

(* C15: once the thermal check has run, running it again on the g_state   *)
(* it left returns the status the first run returned and leaves that       *)
(* g_state, mode included, as it is.                                       *)
C15_ThermalCheckIdempotent ==
    ThermalChecked
        => /\ check_thermal_conditions(g_state).status = thermal_status[1]
           /\ check_thermal_conditions(g_state).g = g_state

(* C15 witness: the thermal check has rejected the readings 95/90, and a   *)
(* second run on the g_state it left rejects them again.                   *)
C15_Witness ==
    /\ thermal_status = <<BOOT_TEMP_CRITICAL>>
    /\ cpu_temp = 95
    /\ board_temp = 90
    /\ check_thermal_conditions(g_state).status = BOOT_TEMP_CRITICAL

(* g_state at the call of this attempt, but for the counter, which the     *)
(* call has incremented.                                                   *)
EntryStateCounted ==
    [entry[1] EXCEPT !.boot_count = (@ + 1) % UINT8_RANGE]

(* C16: the step that evaluates the power gate leaves cpu_temp,            *)
(* board_temp, boot_count and high_temp_mode as they were, whichever value *)
(* the gate returns, and what it prints first are the gate's own lines for *)
(* that value.                                                             *)
C16_PowerGateFrame ==
    [][(pc = "PowerCheck" /\ pc' # "PowerCheck")
          => /\ g_state' = g_state
             /\ \E p \in BOOLEAN :
                   /\ power_ok' = <<p>>
                   /\ Len(out') >= Len(out) + 2
                   /\ SubSeq(out', 1, Len(out) + 2) = out \o PowerLines(p)]_vars

(* C16 witness: the gate has returned false in the second attempt of a     *)
(* session and g_state is what the call made of it.                        *)
C16_Witness ==
    /\ power_ok = <<FALSE>>
    /\ boot_count = 2
    /\ g_state = EntryStateCounted
    /\ out[Len(out)] = log_error("Power supply unstable!")

(* C17: in an aborted attempt g_state is what it was when the attempt was  *)
(* called, mode included, except for the attempt counter, which is one     *)
(* more (modulo 2^8).                                                      *)
C17_AbortKeepsMode ==
    (pc = "Aborted")
        => /\ entry # <<>>
           /\ high_temp_mode = entry[1].high_temp_mode
           /\ g_state = EntryStateCounted

(* C17 witness: the thermal check has aborted the first attempt of a       *)
(* session and the mode is what it was at the call.                        *)
C17_Witness ==
    /\ pc = "Aborted"
    /\ thermal_status = <<BOOT_TEMP_CRITICAL>>
    /\ entry # <<>>
    /\ entry[1].boot_count = 0
    /\ high_temp_mode = entry[1].high_temp_mode

(* C18: a returned value is BOOT_OK, BOOT_TEMP_CRITICAL or BOOT_FAILED;    *)
(* after a true power result it is BOOT_OK if cpu_temp is at most          *)
(* TEMP_NORMAL_MAX and BOOT_TEMP_CRITICAL if not, whatever board_temp,     *)
(* high_temp_mode and boot_count are; after a false one it is BOOT_FAILED. *)
C18_ResultByPowerAndCpu ==
    Returned
        => /\ ret[1] \in {BOOT_OK, BOOT_TEMP_CRITICAL, BOOT_FAILED}
           /\ (power_ok = <<TRUE>>)
                 => ret = <<IF cpu_temp <= TEMP_NORMAL_MAX
                            THEN BOOT_OK ELSE BOOT_TEMP_CRITICAL>>
           /\ (power_ok = <<FALSE>>) => ret = <<BOOT_FAILED>>

(* C18 witness: with stable power an attempt has returned BOOT_OK on a     *)
(* normal CPU reading beside a board reading at the hardened maximum.      *)
C18_Witness ==
    /\ Returned
    /\ power_ok = <<TRUE>>
    /\ cpu_temp = 75
    /\ board_temp >= TEMP_HIGH_MAX
    /\ ret = <<BOOT_OK>>

===========================================================================
